---- MODULE Spec2Model ----
(***************************************************************************)
(* A model of the payment and deposit handlers of src/app.js and of the    *)
(* validation rules of src/validator.js.                                   *)
(*                                                                         *)
(* The database is the three tables Profile, Contract and Job.  A request  *)
(* handler is an async function: between two awaits it runs alone, so one  *)
(* action is one stretch of handler code around one database call.  A      *)
(* database read with the validation that follows it is one action (the    *)
(* validation reads only the fetched rows); the payment transaction is one *)
(* action when it commits and one when it fails after some statements.     *)
(* Writes made inside the transaction are staged and reach the committed   *)
(* tables at commit; increment/decrement are relative updates              *)
(* (SET balance = balance + n), applied to the committed row.              *)
(***************************************************************************)
EXTENDS Integers, Sequences, FiniteSets, Bags, TLC

\* ---------------------------------------------------------------- bounds
MaxReq == 2          \* handlers in flight at the same time
MaxBalance == 2      \* largest initial balance of the paying client
MaxDeposit == 2      \* largest amount a deposit request asks for
MaxDeposits == 1     \* deposits accepted by validation in one behaviour

\* ------------------------------------------------------------- seed data
ProfileIds == {1, 2, 3}
ContractIds == {1, 2, 3}
JobIds == {1, 2, 3}

\* Profiles 1 and 2 are clients, 3 is a contractor.
ProfileType(p) == IF p = 3 THEN "contractor" ELSE "client"

\* Job j belongs to contract j; jobs 1 and 2 cost 2, job 3 costs 1.
SeedPrice(j) == IF j = 3 THEN 1 ELSE 2

\* Client 1 holds every contract; contract 2 is terminated.
SeedContracts ==
    [c \in ContractIds |->
        [ClientId |-> 1, ContractorId |-> 3,
         status |-> CASE c = 1 -> "in_progress" [] c = 2 -> "terminated" [] OTHER -> "new"]]

NullDate == << >>

VARIABLES
    profiles,    \* Profile table: id -> [type, balance]
    contracts,   \* Contract table: id -> [ClientId, ContractorId, status]
    jobs,        \* Job table: id -> [ContractId, price, paid, paymentDate]
    reqs,        \* the bag of handlers in flight: position and fetched instances
    last,        \* the response sent most recently
    now,         \* the clock read by new Date()
    ledger       \* history: initial balances, accepted deposits, payments answered 201

vars == <<profiles, contracts, jobs, reqs, last, now, ledger>>

\* ------------------------------------------------------------- validator
\* throwHttpError: the error the top-level responder turns into a response.
throwHttpError(statusCode, message) == [statusCode |-> statusCode, message |-> message]

NoError == [statusCode |-> 0, message |-> ""]

\* Faulty variant: the role check never throws.
validateJobClientTypeLoose(profileType) ==
    NoError

validateJobClientType(profileType) ==
    IF profileType # "client"
    THEN throwHttpError(403, "Only clients can pay for a job")
    ELSE NoError

Truthy(paid) == paid = "true"

\* Faulty variant: >= in place of > in the balance test.
validatePayJobOffByOne(rows) ==
    IF rows = {} THEN throwHttpError(404, "Job not found")
    ELSE LET job == CHOOSE j \in rows : TRUE IN
         IF Truthy(job.paid) THEN throwHttpError(400, "Job is already paid")
         ELSE IF job.price >= job.Contract.Client.balance
              THEN throwHttpError(400, "Not enough balance to pay for this job")
              ELSE NoError

\* validatePayJob(job): rows is the result of findOne, empty when no row matched.
validatePayJob(rows) ==
    IF rows = {} THEN throwHttpError(404, "Job not found")
    ELSE LET job == CHOOSE j \in rows : TRUE IN
         IF Truthy(job.paid) THEN throwHttpError(400, "Job is already paid")
         ELSE IF job.price > job.Contract.Client.balance
              THEN throwHttpError(400, "Not enough balance to pay for this job")
              ELSE NoError

\* req.body.value: << >> when the body has no value, <<n>> for the number n.
Falsy(depositValue) == depositValue = << >> \/ depositValue[1] = 0

RECURSIVE SumPrice(_)
\* contract.Jobs.reduce((currentSum, job) => currentSum + job.price, 0)
SumPrice(Jobs) ==
    IF Jobs = {} THEN 0
    ELSE LET job == CHOOSE j \in Jobs : TRUE IN job.price + SumPrice(Jobs \ {job})

RECURSIVE totalJobsToPayAmount(_)
\* user.Client.reduce((sum, contract) => sum + contractJobsSum, 0)
totalJobsToPayAmount(Client) ==
    IF Client = {} THEN 0
    ELSE LET contract == CHOOSE c \in Client : TRUE IN
         SumPrice(contract.Jobs) + totalJobsToPayAmount(Client \ {contract})

CapMessage(total) ==
    "Client can't deposit more than 25% his total of jobs to pay (" \o ToString(total) \o ")"

\* Faulty variant: the amount is checked before the profile's type.
validateDepositBalanceAmountFirst(rows, depositValue) ==
    IF rows = {} THEN throwHttpError(404, "User not found")
    ELSE LET user == CHOOSE u \in rows : TRUE IN
         IF Falsy(depositValue) \/ depositValue[1] <= 0
         THEN throwHttpError(400, "Deposit value is invalid (should be > 0)")
         ELSE IF user.type # "client" THEN throwHttpError(400, "User is not a client")
              ELSE LET total == totalJobsToPayAmount(user.Client) IN
                   IF 4 * depositValue[1] > total
                   THEN throwHttpError(400, CapMessage(total))
                   ELSE NoError

\* validateDepositBalance(user, depositValue); depositValue > 0.25 * total is
\* 4 * depositValue > total on the integers.
validateDepositBalance(rows, depositValue) ==
    IF rows = {} THEN throwHttpError(404, "User not found")
    ELSE LET user == CHOOSE u \in rows : TRUE IN
         IF user.type # "client" THEN throwHttpError(400, "User is not a client")
         ELSE IF Falsy(depositValue) \/ depositValue[1] <= 0
              THEN throwHttpError(400, "Deposit value is invalid (should be > 0)")
              ELSE LET total == totalJobsToPayAmount(user.Client) IN
                   IF 4 * depositValue[1] > total
                   THEN throwHttpError(400, CapMessage(total))
                   ELSE NoError

\* --------------------------------------------------------------- queries
ProfileRow(p) == [id |-> p, type |-> profiles[p].type, balance |-> profiles[p].balance]

\* Faulty variant: the lookup without the ClientId filter.
FindJobAnyClient(caller, jobId) ==
    {[id |-> j, price |-> jobs[j].price, paid |-> jobs[j].paid,
      Contract |-> [Client |-> ProfileRow(contracts[jobs[j].ContractId].ClientId),
                    Contractor |-> ProfileRow(contracts[jobs[j].ContractId].ContractorId)]] :
        j \in {k \in JobIds :
                 /\ k = jobId
                 /\ contracts[jobs[k].ContractId].status \in {"new", "in_progress"}}}

\* Faulty variant: the lookup without the status filter.
FindJobAnyStatus(caller, jobId) ==
    {[id |-> j, price |-> jobs[j].price, paid |-> jobs[j].paid,
      Contract |-> [Client |-> ProfileRow(contracts[jobs[j].ContractId].ClientId),
                    Contractor |-> ProfileRow(contracts[jobs[j].ContractId].ContractorId)]] :
        j \in {k \in JobIds :
                 /\ k = jobId
                 /\ contracts[jobs[k].ContractId].ClientId = caller}}

\* Job.findOne: the job with this id whose contract belongs to the caller and is
\* new or in_progress, with the contract's Client and Contractor profiles.
FindJob(caller, jobId) ==
    {[id |-> j, price |-> jobs[j].price, paid |-> jobs[j].paid,
      Contract |-> [Client |-> ProfileRow(contracts[jobs[j].ContractId].ClientId),
                    Contractor |-> ProfileRow(contracts[jobs[j].ContractId].ContractorId)]] :
        j \in {k \in JobIds :
                 /\ k = jobId
                 /\ contracts[jobs[k].ContractId].ClientId = caller
                 /\ contracts[jobs[k].ContractId].status \in {"new", "in_progress"}}}

\* Faulty variant: terminated contracts left out of the include.
FindUserActiveOnly(userId) ==
    {[id |-> p, type |-> profiles[p].type, balance |-> profiles[p].balance,
      Client |-> {[id |-> c,
                   Jobs |-> {[id |-> j, price |-> jobs[j].price] :
                               j \in {k \in JobIds : jobs[k].ContractId = c /\ jobs[k].paid = "null"}}] :
                    c \in {d \in ContractIds : contracts[d].ClientId = p
                                               /\ contracts[d].status # "terminated"}}] :
        p \in {q \in ProfileIds : q = userId}}

\* Profile.findOne: the profile with this id, with every contract where it is the
\* client (any status) and, for each, the jobs whose paid is null.
FindUser(userId) ==
    {[id |-> p, type |-> profiles[p].type, balance |-> profiles[p].balance,
      Client |-> {[id |-> c,
                   Jobs |-> {[id |-> j, price |-> jobs[j].price] :
                               j \in {k \in JobIds : jobs[k].ContractId = c /\ jobs[k].paid = "null"}}] :
                    c \in {d \in ContractIds : contracts[d].ClientId = p}}] :
        p \in {q \in ProfileIds : q = userId}}

\* ----------------------------------------------------------- transaction
\* A write is one of
\*   [op |-> "update", job, paid, paymentDate]   job.update({paid, paymentDate})
\*   [op |-> "decrement", profile, by]           profile.decrement({balance: by})
\*   [op |-> "increment", profile, by]           profile.increment({balance: by})
\* and db is [jobs, profiles].
\* Faulty variant: decrement('balance') without the amount.
DecrementByOne(db, w) ==
    [db EXCEPT !.profiles[w.profile].balance = @ - 1]

\* UPDATE Profiles SET balance = balance - by WHERE id = profile
Decrement(db, w) ==
    [db EXCEPT !.profiles[w.profile].balance = @ - w.by]

\* Faulty variant: the credit is dropped.
IncrementSkipped(db, w) == db

\* UPDATE Profiles SET balance = balance + by WHERE id = profile
Increment(db, w) ==
    [db EXCEPT !.profiles[w.profile].balance = @ + w.by]

\* UPDATE Jobs SET paid = ..., paymentDate = ... WHERE id = job
UpdateJob(db, w) ==
    [db EXCEPT !.jobs[w.job].paid = w.paid, !.jobs[w.job].paymentDate = w.paymentDate]

Apply(db, w) ==
    CASE w.op = "update" -> UpdateJob(db, w)
      [] w.op = "decrement" -> Decrement(db, w)
      [] w.op = "increment" -> Increment(db, w)

RECURSIVE ApplyAll(_, _)
ApplyAll(db, writes) ==
    IF writes = << >> THEN db ELSE ApplyAll(Apply(db, Head(writes)), Tail(writes))

\* Faulty variant: the statement without { transaction: t }.
WriteOutsideTransaction(db, staged, w) ==
    [db |-> Apply(db, w), staged |-> staged]

\* A statement run with { transaction: t }: the write is staged in t and the
\* committed tables keep their rows.
WriteInTransaction(db, staged, w) ==
    [db |-> db, staged |-> Append(staged, w)]

\* COMMIT: every staged write reaches the tables, in order, at once.
Commit(db, staged) == ApplyAll(db, staged)

\* ROLLBACK: the staged writes are dropped.
Rollback(db, staged) == db

Db == [jobs |-> jobs, profiles |-> profiles]

\* --------------------------------------------------------------- history
Response(op, caller, target, value, statusCode, message) ==
    [op |-> op, caller |-> caller, target |-> target, value |-> value,
     statusCode |-> statusCode, message |-> message]

NoResponse == Response("none", 0, 0, << >>, 0, "")

\* The handlers in flight, and room for one more.
Handlers == BagToSet(reqs)
Free == BagCardinality(reqs) < MaxReq
Enter(h) == reqs (+) SetToBag({h})
Leave(h) == reqs (-) SetToBag({h})

\* ------------------------------------------------------------------ Init
Init ==
    /\ \E b \in 0..MaxBalance :
         profiles = [p \in ProfileIds |->
                        [type |-> ProfileType(p), balance |-> IF p = 1 THEN b ELSE 0]]
    /\ contracts = SeedContracts
    /\ \E paid2 \in {"null", "true"} :
         jobs = [j \in JobIds |->
                   [ContractId |-> j, price |-> SeedPrice(j),
                    paid |-> IF j = 2 THEN paid2 ELSE "null",
                    paymentDate |-> IF j = 2 /\ paid2 = "true" THEN <<0>> ELSE NullDate]]
    /\ reqs = EmptyBag
    /\ last = NoResponse
    /\ now = 1
    /\ ledger = [balance0 |-> [p \in ProfileIds |-> profiles[p].balance],
                 deposited |-> [p \in ProfileIds |-> 0],
                 accepted |-> 0,
                 paid201 |-> [j \in JobIds |-> 0]]

\* ------------------------------------------- POST /jobs/:job_id/pay
\* What the handler keeps of the fetched job: the fields the transaction reads.
Instance(job) ==
    [id |-> job.id, price |-> job.price,
     Contract |-> [Client |-> [id |-> job.Contract.Client.id],
                   Contractor |-> [id |-> job.Contract.Contractor.id]]]

\* Faulty variant: job.update issued ahead of validatePayJob.
PayBeginUpdateFirst(caller, jobId) ==
    /\ Free
    /\ LET roleError == validateJobClientType(profiles[caller].type)
           rows == FindJob(caller, jobId)
           error == IF roleError # NoError THEN roleError ELSE validatePayJob(rows)
       IN /\ jobs' = IF roleError = NoError /\ rows # {}
                      THEN [jobs EXCEPT ![jobId].paid = "true", ![jobId].paymentDate = <<now>>]
                      ELSE jobs
          /\ IF error # NoError
             THEN /\ last' = Response("pay", caller, jobId, << >>, error.statusCode, error.message)
                  /\ UNCHANGED reqs
             ELSE /\ reqs' = Enter([pc |-> "tx", caller |-> caller,
                                   job |-> Instance(CHOOSE j \in rows : TRUE)])
                  /\ UNCHANGED last
    /\ UNCHANGED <<profiles, contracts, now, ledger>>

\* From the request to the end of validatePayJob: the role check, the lookup
\* and the payable-job check.  A failure is answered by the error handler;
\* otherwise the handler goes on to open the transaction.
PayBegin(caller, jobId) ==
    /\ Free
    /\ LET roleError == validateJobClientType(profiles[caller].type)
           rows == FindJob(caller, jobId)
           error == IF roleError # NoError THEN roleError ELSE validatePayJob(rows)
       IN IF error # NoError
          THEN /\ last' = Response("pay", caller, jobId, << >>, error.statusCode, error.message)
               /\ UNCHANGED reqs
          ELSE /\ reqs' = Enter([pc |-> "tx", caller |-> caller,
                                job |-> Instance(CHOOSE j \in rows : TRUE)])
               /\ UNCHANGED last
    /\ UNCHANGED <<profiles, contracts, jobs, now, ledger>>

\* The statements of the transaction callback, in order, for the fetched job:
\*   await job.update({ paid: true, paymentDate: new Date() }, { transaction: t })
\*   await job.Contract.Client.decrement({ balance: job.price }, { transaction: t })
\*   await job.Contract.Contractor.increment({ balance: job.price }, { transaction: t })
Statements(job, date) ==
    << [op |-> "update", job |-> job.id, paid |-> "true", paymentDate |-> <<date>>],
       [op |-> "decrement", profile |-> job.Contract.Client.id, by |-> job.price],
       [op |-> "increment", profile |-> job.Contract.Contractor.id, by |-> job.price] >>

RECURSIVE Run(_, _, _)
\* The first statements of the callback run one after the other.
Run(db, staged, writes) ==
    IF writes = << >> THEN [db |-> db, staged |-> staged]
    ELSE LET out == WriteInTransaction(db, staged, Head(writes)) IN
         Run(out.db, out.staged, Tail(writes))

\* sequelize.transaction(callback) with every statement accepted: the callback
\* returns, the transaction commits and the handler answers 201.  No other
\* handler sees the staged writes, so the callback and the commit are one step.
PayCommit(h) ==
    /\ h.pc = "tx"
    /\ LET out == Run(Db, << >>, Statements(h.job, now))
           db == Commit(out.db, out.staged)
       IN /\ jobs' = db.jobs
          /\ profiles' = db.profiles
    /\ reqs' = Leave(h)
    /\ last' = Response("pay", h.caller, h.job.id, << >>, 201, "")
    /\ now' = now + 1
    /\ ledger' = [ledger EXCEPT !.paid201[h.job.id] = @ + 1]
    /\ UNCHANGED contracts

\* The database rejects BEGIN (n = 0), the statement after the first n, or
\* COMMIT (n = 3): the transaction rolls back and the inner catch answers 400
\* with the error.
PayFail(h, n) ==
    /\ h.pc = "tx"
    /\ LET out == Run(Db, << >>, SubSeq(Statements(h.job, now), 1, n))
           db == Rollback(out.db, out.staged)
       IN /\ jobs' = db.jobs
          /\ profiles' = db.profiles
    /\ reqs' = Leave(h)
    /\ last' = Response("pay", h.caller, h.job.id, << >>, 400, "transaction error")
    /\ UNCHANGED <<contracts, now, ledger>>

\* ------------------------------------ POST /balances/deposit/:user_id
DepositValues == {<< >>} \cup {<<n>> : n \in (0 - 1)..MaxDeposit}

\* Faulty variant: the UPDATE without its WHERE id = user.id.
IncrementEveryRow(db, user, by) ==
    [db EXCEPT !.profiles = [p \in DOMAIN db.profiles |->
                               [db.profiles[p] EXCEPT !.balance = @ + by]]]

\* Faulty variant: read-modify-write from the fetched balance.
IncrementInstanceStale(db, user, by) ==
    [db EXCEPT !.profiles[user.id].balance = user.balance + by]

\* user.increment({ balance: by }) outside any transaction:
\* UPDATE Profiles SET balance = balance + by WHERE id = user.id
IncrementInstance(db, user, by) ==
    [db EXCEPT !.profiles[user.id].balance = @ + by]

\* From the request to the end of validateDepositBalance.
DepositBegin(userId, depositValue) ==
    /\ Free
    /\ LET rows == FindUser(userId)
           error == validateDepositBalance(rows, depositValue)
       IN IF error # NoError
          THEN /\ last' = Response("deposit", 0, userId, depositValue,
                                   error.statusCode, error.message)
               /\ UNCHANGED <<reqs, ledger>>
          ELSE /\ ledger.accepted < MaxDeposits
               /\ reqs' = Enter([pc |-> "increment",
                                 user |-> [id |-> userId,
                                           balance |-> (CHOOSE u \in rows : TRUE).balance],
                                 value |-> depositValue[1]])
               /\ ledger' = [ledger EXCEPT !.accepted = @ + 1]
               /\ UNCHANGED last
    /\ UNCHANGED <<profiles, contracts, jobs, now>>

\* await user.increment({ balance: depositValue }); res.status(201).end()
DepositIncrement(h) ==
    /\ h.pc = "increment"
    /\ LET db == IncrementInstance(Db, h.user, h.value) IN
         /\ profiles' = db.profiles
         /\ jobs' = db.jobs
    /\ reqs' = Leave(h)
    /\ last' = Response("deposit", 0, h.user.id, <<h.value>>, 201, "")
    /\ ledger' = [ledger EXCEPT !.deposited[h.user.id] = @ + h.value]
    /\ UNCHANGED <<contracts, now>>

\* ------------------------------------------------------------------ Next
Next ==
    \/ \E caller \in ProfileIds, jobId \in JobIds \cup {4} : PayBegin(caller, jobId)
    \/ \E h \in Handlers : PayCommit(h)
    \/ \E h \in Handlers, n \in 0..3 : PayFail(h, n)
    \/ \E userId \in ProfileIds \cup {4}, v \in DepositValues : DepositBegin(userId, v)
    \/ \E h \in Handlers : DepositIncrement(h)

Spec == Init /\ [][Next]_vars

\* ------------------------------------------------------------ properties
ClientOf(j) == contracts[jobs[j].ContractId].ClientId
ContractorOf(j) == contracts[jobs[j].ContractId].ContractorId

\* A payment handler leaves the transaction in this step, answering 201.
PayAnswers201(h) == h.pc = "tx" /\ reqs' = Leave(h) /\ last'.statusCode = 201

\* A payment handler leaves the transaction in this step, answering 400.
PayAnswers400(h) == h.pc = "tx" /\ reqs' = Leave(h) /\ last'.statusCode # 201

\* A deposit handler applies its increment in this step.
DepositAnswers201(h) == h.pc = "increment" /\ reqs' = Leave(h)

\* Handler h passes its validation in this step.
Passes(h) == reqs' = Enter(h) /\ last' = last

\* A request is answered in this step by the error handler, before any write.
Rejected(op) == last' # last /\ reqs' = reqs /\ last'.op = op

RECURSIVE SumOver(_, _)
SumOver(S, f) ==
    IF S = {} THEN 0
    ELSE LET x == CHOOSE y \in S : TRUE IN f[x] + SumOver(S \ {x}, f)

\* The money the 201-answered payments moved out of / into profile p.
PaidOut(p) ==
    SumOver({j \in JobIds : ClientOf(j) = p}, [j \in JobIds |-> jobs[j].price * ledger.paid201[j]])
PaidIn(p) ==
    SumOver({j \in JobIds : ContractorOf(j) = p}, [j \in JobIds |-> jobs[j].price * ledger.paid201[j]])

\* C1: a payment answered 201 for a job of price A lowers the client's balance
\* by exactly A, raises the contractor's by exactly A (their sum is unchanged)
\* and leaves the job paid with a paymentDate.
C1_PaymentMovesPrice ==
    [][\A h \in Handlers : PayAnswers201(h) =>
         LET j == h.job.id
             A == jobs[j].price
             c == ClientOf(j)
             k == ContractorOf(j)
         IN /\ profiles'[c].balance = profiles[c].balance - A
            /\ profiles'[k].balance = profiles[k].balance + A
            /\ profiles'[c].balance + profiles'[k].balance
                 = profiles[c].balance + profiles[k].balance
            /\ jobs'[j].paid = "true"
            /\ jobs'[j].paymentDate # NullDate]_vars

C1_Witness ==
    /\ last.op = "pay" /\ last.statusCode = 201
    /\ jobs[last.target].paid = "true"
    /\ profiles[3].balance = jobs[last.target].price

\* C2: of the pay requests against one job at most one is answered 201, so the
\* job's price is debited and credited at most once.
C2_AtMostOnePayment ==
    \A j \in JobIds : ledger.paid201[j] <= 1

\* C3: no update of a client's balance is lost: it is the initial balance plus
\* the deposits answered 201 minus the prices of the payments answered 201.
C3_NoLostUpdate ==
    \A p \in ProfileIds :
        profiles[p].type = "client" =>
            profiles[p].balance = ledger.balance0[p] + ledger.deposited[p] - PaidOut(p)

\* A deposit into client 1 is waiting to apply its increment and a payment by
\* client 1 has committed since the deposit fetched the balance.
C3_Witness ==
    \E h \in Handlers :
        /\ h.pc = "increment"
        /\ h.user.id = 1
        /\ h.user.balance # profiles[1].balance
        /\ last.op = "pay" /\ last.statusCode = 201 /\ last.caller = 1

\* C4: the payment's three writes are all-or-nothing.  In every committed
\* state a job was paid by a payment exactly when its price was debited from
\* the client and credited to the contractor; a transaction that fails at any
\* statement leaves the job and every balance as they were and answers 400.
C4_AllOrNothing ==
    /\ [](\A j \in JobIds :
            /\ ledger.paid201[j] >= 1 => jobs[j].paid = "true" /\ jobs[j].paymentDate # NullDate
            /\ jobs[j].paid = "true" => ledger.paid201[j] >= 1 \/ jobs[j].paymentDate = <<0>>
            /\ jobs[j].paid = "true" <=> jobs[j].paymentDate # NullDate)
    /\ [](\A p \in ProfileIds :
            profiles[p].balance
                = ledger.balance0[p] + ledger.deposited[p] - PaidOut(p) + PaidIn(p))
    /\ [][\A h \in Handlers : PayAnswers400(h) =>
            /\ jobs' = jobs
            /\ profiles' = profiles
            /\ last'.statusCode = 400]_vars

\* A transaction failed and the job it was paying is still unpaid.
C4_Witness ==
    /\ last.op = "pay" /\ last.statusCode = 400 /\ last.message = "transaction error"
    /\ jobs[last.target].paid = "null"
    /\ ledger.paid201[last.target] = 0

Authorized(caller, j) ==
    /\ profiles[caller].type = "client"
    /\ j \in JobIds
    /\ ClientOf(j) = caller
    /\ contracts[jobs[j].ContractId].status \in {"new", "in_progress"}

\* C5: a payment is answered 201 only for a client-type caller who is the
\* client of the job's contract, the contract being new or in_progress; a job
\* or a balance changes in a pay request only when such a payment commits.
C5_OnlyTheContractsClientPays ==
    /\ [][\A h \in Handlers : PayAnswers201(h) => Authorized(h.caller, h.job.id)]_vars
    /\ [][\A j \in JobIds : jobs'[j] # jobs[j] =>
            \E h \in Handlers : /\ PayAnswers201(h)
                                /\ h.job.id = j
                                /\ Authorized(h.caller, j)]_vars
    /\ [][profiles' # profiles =>
            \E h \in Handlers : \/ DepositAnswers201(h)
                                \/ PayAnswers201(h) /\ Authorized(h.caller, h.job.id)]_vars
    /\ [](\A h \in Handlers : h.pc = "tx" => Authorized(h.caller, h.job.id))

\* Client 2 asked to pay job 1, which client 1 can still pay: it was refused.
C5_Witness ==
    /\ last.op = "pay" /\ last.caller = 2 /\ last.target = 1 /\ last.statusCode = 404
    /\ jobs[1].paid = "null"
    /\ ledger.paid201[3] = 1

\* The lookup hides the job from this caller: no such id, another client's
\* contract, or a terminated contract.
Hidden(caller, jobId) ==
    \/ jobId \notin JobIds
    \/ ClientOf(jobId) # caller
    \/ contracts[jobs[jobId].ContractId].status = "terminated"

\* C6: a client-type caller asking for a hidden job gets 404 'Job not found'
\* and changes nothing, whichever of the three reasons hides the job and
\* whatever its paid flag, its price and the balances are.
C6_HiddenJobIsNotFound ==
    /\ [][Rejected("pay") /\ profiles[last'.caller].type = "client"
                          /\ Hidden(last'.caller, last'.target) =>
            /\ last'.statusCode = 404
            /\ last'.message = "Job not found"
            /\ UNCHANGED <<profiles, contracts, jobs, reqs, ledger>>]_vars
    /\ [][\A h \in BagToSet(reqs') : Passes(h) /\ h.pc = "tx" =>
            ~Hidden(h.caller, h.job.id)]_vars

\* Client 1 asked for job 2 (terminated contract, already paid): 404.
C6_Witness ==
    /\ last.op = "pay" /\ last.caller = 1 /\ last.target = 2
    /\ last.statusCode = 404 /\ last.message = "Job not found"
    /\ jobs[2].paid = "true"

PayValidationMessages ==
    {"Only clients can pay for a job", "Job not found", "Job is already paid",
     "Not enough balance to pay for this job"}

\* C7: a pay request refused by a validation is refused before the
\* transaction: no transaction is open for it and the jobs (paid, paymentDate)
\* and every balance are as before.
C7_ValidationFailureChangesNothing ==
    [][last' # last /\ last'.op = "pay" /\ last'.message \in PayValidationMessages =>
         /\ last'.statusCode \in {403, 404, 400}
         /\ jobs' = jobs
         /\ profiles' = profiles
         /\ reqs' = reqs]_vars

C7_Witness ==
    /\ last.op = "pay" /\ last.statusCode = 400
    /\ last.message = "Not enough balance to pay for this job"
    /\ jobs[last.target].paid = "null" /\ jobs[last.target].paymentDate = NullDate

\* C8: a caller whose type is not client is answered 403 for every job id
\* (missing, hidden, paid or payable) and never reaches the lookup; a client
\* caller is never answered 403.
C8_RoleCheckFirst ==
    /\ last.op = "pay" /\ profiles[last.caller].type # "client" =>
          last.statusCode = 403 /\ last.message = "Only clients can pay for a job"
    /\ last.op = "pay" /\ profiles[last.caller].type = "client" => last.statusCode # 403
    /\ \A h \in Handlers : h.pc = "tx" => profiles[h.caller].type = "client"

\* The contractor asked to pay a job id that does not exist: 403, not 404.
C8_Witness ==
    /\ last.op = "pay" /\ last.caller = 3 /\ last.target = 4 /\ last.statusCode = 403

\* C9: on a found job the payable-job check fails 'already paid' when paid is
\* true whatever the balance, else 'not enough balance' when price > balance,
\* and passes otherwise (price <= balance, price = balance included).
C9_PayableJobCheck ==
    /\ [][Rejected("pay") /\ Authorized(last'.caller, last'.target) =>
            LET j == last'.target
                balance == profiles[ClientOf(j)].balance
            IN /\ last'.statusCode = 400
               /\ jobs[j].paid = "true" => last'.message = "Job is already paid"
               /\ jobs[j].paid # "true" =>
                    /\ jobs[j].price > balance
                    /\ last'.message = "Not enough balance to pay for this job"]_vars
    /\ [][\A h \in BagToSet(reqs') : Passes(h) /\ h.pc = "tx" =>
            LET j == h.job.id IN
            /\ jobs[j].paid # "true"
            /\ jobs[j].price <= profiles[ClientOf(j)].balance]_vars

\* The check passed with price = balance.
C9_Witness ==
    \E h \in Handlers :
        /\ h.pc = "tx"
        /\ jobs[h.job.id].paid = "null"
        /\ jobs[h.job.id].price = profiles[1].balance

\* The sum of price over the unpaid jobs of every contract whose client is p.
TotalOwed(p) ==
    SumOver({j \in JobIds : jobs[j].paid = "null" /\ ClientOf(j) = p},
            [j \in JobIds |-> jobs[j].price])

\* C10: a deposit of a positive amount into a client passes when
\* 4 * amount <= T and is refused 400 when 4 * amount > T, the message giving
\* T, the total price of the client's unpaid jobs on contracts of any status.
C10_DepositCap ==
    /\ [][/\ Rejected("deposit")
          /\ last'.target \in ProfileIds
          /\ profiles[last'.target].type = "client"
          /\ last'.value # << >>
          /\ last'.value[1] > 0
          => /\ 4 * last'.value[1] > TotalOwed(last'.target)
             /\ last'.statusCode = 400
             /\ last'.message = CapMessage(TotalOwed(last'.target))]_vars
    /\ [][\A h \in BagToSet(reqs') : Passes(h) /\ h.pc = "increment" =>
            /\ h.value > 0
            /\ 4 * h.value <= TotalOwed(h.user.id)]_vars
    /\ [][\A h \in Handlers : DepositAnswers201(h) => last'.statusCode = 201]_vars

\* A deposit passed at the cap (4 * amount = T) with a terminated contract's
\* unpaid job counted in T.
C10_Witness ==
    \E h \in Handlers :
        /\ h.pc = "increment"
        /\ 4 * h.value = TotalOwed(h.user.id)
        /\ jobs[2].paid = "null"

\* C11: a deposit answered 201 for the amount D raises the target's balance
\* by exactly D and leaves every other balance, every job and every contract
\* as they were.
C11_DepositFrame ==
    [][\A h \in Handlers : DepositAnswers201(h) =>
         /\ last'.op = "deposit" /\ last'.statusCode = 201 /\ last'.value = <<h.value>>
         /\ profiles'[h.user.id].balance = profiles[h.user.id].balance + h.value
         /\ \A p \in ProfileIds \ {h.user.id} : profiles'[p] = profiles[p]
         /\ profiles'[h.user.id].type = profiles[h.user.id].type
         /\ jobs' = jobs
         /\ contracts' = contracts]_vars

\* A deposit was applied to client 1 while the contractor holds money from a
\* payment: only client 1's balance moved.
C11_Witness ==
    /\ last.op = "deposit" /\ last.statusCode = 201 /\ last.target = 1
    /\ ledger.deposited[1] = last.value[1]
    /\ profiles[3].balance > 0

\* The answer the four rules give, in their order, for a refused deposit.
DepositRefusal(userId, depositValue) ==
    IF userId \notin ProfileIds THEN [statusCode |-> 404, message |-> "User not found"]
    ELSE IF profiles[userId].type # "client"
         THEN [statusCode |-> 400, message |-> "User is not a client"]
    ELSE IF depositValue = << >> \/ depositValue[1] <= 0
         THEN [statusCode |-> 400, message |-> "Deposit value is invalid (should be > 0)"]
    ELSE [statusCode |-> 400, message |-> CapMessage(TotalOwed(userId))]

\* C12: a refused deposit is answered with the first violated rule in the
\* order absent profile (404), not a client (400), amount missing, zero or
\* negative (400), amount above the cap (400), and changes no balance.
C12_DepositRejectionOrder ==
    /\ [][Rejected("deposit") =>
            /\ last'.statusCode = DepositRefusal(last'.target, last'.value).statusCode
            /\ last'.message = DepositRefusal(last'.target, last'.value).message
            /\ profiles' = profiles
            /\ jobs' = jobs]_vars
    /\ [][\A h \in BagToSet(reqs') : Passes(h) /\ h.pc = "increment" =>
            /\ h.user.id \in ProfileIds
            /\ profiles[h.user.id].type = "client"
            /\ h.value > 0
            /\ profiles' = profiles]_vars

\* A deposit with no amount into the contractor: 'not a client' comes first.
C12_Witness ==
    /\ last.op = "deposit" /\ last.target = 3 /\ last.value = << >>
    /\ last.statusCode = 400 /\ last.message = "User is not a client"

\* C16: once a job is paid, no later step changes its paid flag, paymentDate
\* or price, and paymentDate is set exactly when paid is true.
C16_PaidJobImmutable ==
    /\ [][\A j \in JobIds : jobs[j].paid = "true" => jobs'[j] = jobs[j]]_vars
    /\ [](\A j \in JobIds : jobs[j].paid = "true" <=> jobs[j].paymentDate # NullDate)

\* C17: every client balance is >= 0 in every reachable state.
C17_BalanceNeverNegative ==
    \A p \in ProfileIds : profiles[p].type = "client" => profiles[p].balance >= 0

\* C19: whenever a deposit's increment is applied, its amount is at most 25%
\* of the client's total price of unpaid jobs in the state at that moment.
C19_CapAtDepositMoment ==
    [][\A h \in Handlers : DepositAnswers201(h) =>
         4 * h.value <= TotalOwed(h.user.id)]_vars

\* C20: the sum of all balances is the initial sum plus the deposits applied.
C20_MoneyEntersByDeposit ==
    SumOver(ProfileIds, [p \in ProfileIds |-> profiles[p].balance])
        = SumOver(ProfileIds, [p \in ProfileIds |-> ledger.balance0[p] + ledger.deposited[p]])

\* A deposit was applied and a payment was answered 201.
C20_Witness ==
    /\ \E p \in ProfileIds : ledger.deposited[p] > 0
    /\ \E j \in JobIds : ledger.paid201[j] > 0
    /\ profiles[3].balance > 0

\* ======================================================== admin reports
\* GET /admin/best-profession and GET /admin/best-clients read the tables and
\* write nothing.  They are checked over tables drawn at the start: which
\* profiles exist, the contractors' professions, and each job's price, paid
\* flag and paymentDate.  A date is a day number; day 0 stands for a string
\* that is not a valid YYYY-MM-DD date.
MaxJobPrice == 2
MaxDate == 2
MaxLimit == 3

ReportClients == {1, 2, 3}
ReportContractors == {4, 5, 6}
ReportContracts ==
    [c \in {1, 2, 3} |->
        [ClientId |-> IF c = 2 THEN 2 ELSE 1, ContractorId |-> c + 3, status |-> "in_progress"]]
ReportJobContract == <<1, 2, 3, 2>>
Dates == 1..MaxDate
DateInputs == 0..MaxDate
LimitInputs == {<< >>} \cup {<<n>> : n \in (0 - 1)..MaxLimit}
FirstName(p) == "First" \o ToString(p)
LastName(p) == "Last" \o ToString(p)
NoProfessionsPaid == "No professions were paid in this time range"

\* The rows of the tables whose foreign keys point at existing rows.
ReportTables(present, profession, price, date) ==
    LET cs == {c \in DOMAIN ReportContracts :
                 /\ ReportContracts[c].ClientId \in present
                 /\ ReportContracts[c].ContractorId \in present}
        js == {j \in DOMAIN ReportJobContract : ReportJobContract[j] \in cs}
    IN  [profiles |-> [p \in present |->
                         [type |-> IF p \in ReportClients THEN "client" ELSE "contractor",
                          balance |-> 0, profession |-> profession[p],
                          firstName |-> FirstName(p), lastName |-> LastName(p)]],
         contracts |-> [c \in cs |-> ReportContracts[c]],
         jobs |-> [j \in js |->
                     [ContractId |-> ReportJobContract[j], price |-> price[j],
                      paid |-> IF date[j] = 0 THEN "null" ELSE "true",
                      paymentDate |-> IF date[j] = 0 THEN NullDate ELSE <<date[j]>>]]]

\* Tables with the given clients and contractors.  Contractor 4 is a
\* Programmer, 5 and 6 have one of the given professions; jobs 1 and 2 have
\* any price, jobs 3 and 4 price 1; jobs 1 to 3 are unpaid (day 0) or paid on
\* some day, job 4 was paid on day 1.
InitReport(clients, contractors, professions5, professions6) ==
    /\ \E prof5 \in professions5, prof6 \in professions6,
          price \in [1..2 -> 1..MaxJobPrice], date \in [1..3 -> 0..MaxDate] :
         LET profession == [p \in ReportClients \cup ReportContractors |->
                              IF p \in ReportClients THEN "Client"
                              ELSE IF p = 4 THEN "Programmer"
                              ELSE IF p = 5 THEN prof5 ELSE prof6]
             t == ReportTables(clients \cup contractors, profession,
                               [j \in 1..4 |-> IF j >= 3 THEN 1 ELSE price[j]],
                               [j \in 1..4 |-> IF j = 4 THEN 1 ELSE date[j]])
         IN  /\ profiles = t.profiles
             /\ contracts = t.contracts
             /\ jobs = t.jobs
    /\ reqs = EmptyBag
    /\ last = [op |-> "none"]
    /\ now = 1
    /\ ledger = [accepted |-> 0]

InitBestProfession ==
    \E n \in 0..3 : InitReport(ReportClients, {p \in ReportContractors : p <= 3 + n},
                               {"Programmer", "Musician"}, {"Musician", "Fighter"})

InitBestClients ==
    \E n \in 0..3 : InitReport({p \in ReportClients : p <= n}, ReportContractors,
                               {"Musician"}, {"Fighter"})

\* validateDates(dates): the first date that is not valid is refused.
validateDates(dates) ==
    IF \E i \in 1..Len(dates) : dates[i] = 0
    THEN LET i == CHOOSE k \in 1..Len(dates) :
                     dates[k] = 0 /\ \A m \in 1..(k - 1) : dates[m] # 0
         IN  throwHttpError(400, "Invalid date: " \o ToString(dates[i]))
    ELSE NoError

\* The elements of a set of ids in ascending order: the order of the rows
\* of a findAll.
RECURSIVE Ascending(_)
Ascending(S) ==
    IF S = {} THEN << >>
    ELSE LET x == CHOOSE y \in S : \A z \in S : y <= z IN <<x>> \o Ascending(S \ {x})

\* where: { paymentDate: { [Op.between]: [start, end] }, paid: true }
PaidBetween(job, start, end) ==
    /\ job.paid = "true"
    /\ job.paymentDate # NullDate
    /\ start <= job.paymentDate[1] /\ job.paymentDate[1] <= end

\* Profile.findAll({ where: { type }, include: [{ model: Contract, as,
\* include: [{ model: Job, where: ... }] }] }): every profile of the type; of
\* its contracts under the association those with a matching job, each with
\* its matching jobs.
FindAll(type, as, start, end) ==
    LET JobsOf(c) == {j \in DOMAIN jobs : jobs[j].ContractId = c /\ PaidBetween(jobs[j], start, end)}
        JobRows(c) == [i \in 1..Cardinality(JobsOf(c)) |->
                         [id |-> Ascending(JobsOf(c))[i], price |-> jobs[Ascending(JobsOf(c))[i]].price]]
        Of(p) == {c \in DOMAIN contracts :
                    /\ (IF as = "Client" THEN contracts[c].ClientId ELSE contracts[c].ContractorId) = p
                    /\ JobsOf(c) # {}}
        ContractRows(p) == [i \in 1..Cardinality(Of(p)) |->
                              [id |-> Ascending(Of(p))[i], Jobs |-> JobRows(Ascending(Of(p))[i])]]
        ids == Ascending({p \in DOMAIN profiles : profiles[p].type = type})
    IN  [i \in 1..Len(ids) |->
           [id |-> ids[i], profession |-> profiles[ids[i]].profession,
            firstName |-> profiles[ids[i]].firstName, lastName |-> profiles[ids[i]].lastName,
            Contracts |-> ContractRows(ids[i])]]

\* contract.Jobs.reduce((currentSum, job) => currentSum + (job.price || 0), 0)
RECURSIVE contractJobsSum(_)
contractJobsSum(Jobs) ==
    IF Jobs = << >> THEN 0
    ELSE contractJobsSum(SubSeq(Jobs, 1, Len(Jobs) - 1)) + Jobs[Len(Jobs)].price

\* user.Contractor.reduce((sum, contract) => sum + contractJobsSum, 0)
RECURSIVE contractsSum(_)
contractsSum(cs) ==
    IF cs = << >> THEN 0
    ELSE contractsSum(SubSeq(cs, 1, Len(cs) - 1)) + contractJobsSum(cs[Len(cs)].Jobs)

\* ------------------------------------------ GET /admin/best-profession
\* users.forEach(...): the keys of professionMap in the order they were
\* added, and the sum under each key.
RECURSIVE professionMap(_)
professionMap(users) ==
    IF users = << >> THEN [keys |-> << >>, sum |-> << >>]
    ELSE LET m == professionMap(SubSeq(users, 1, Len(users) - 1))
             user == users[Len(users)]
             profession == user.profession
             known == \E i \in 1..Len(m.keys) : m.keys[i] = profession
             \* a key whose sum is still 0 is set to 0 again
             keys == IF known THEN m.keys ELSE Append(m.keys, profession)
             before == IF known THEN m.sum[profession] ELSE 0
         IN  [keys |-> keys,
              sum |-> [k \in {keys[i] : i \in 1..Len(keys)} |->
                         IF k = profession THEN before + contractsSum(user.Contracts)
                         ELSE m.sum[k]]]

\* Faulty variant: the comparison of the reduce turned around.
RECURSIVE reduceLeast(_, _)
reduceLeast(keys, sum) ==
    IF Len(keys) = 1 THEN keys[1]
    ELSE LET a == reduceLeast(SubSeq(keys, 1, Len(keys) - 1), sum)
             b == keys[Len(keys)]
         IN  IF sum[a] < sum[b] THEN a ELSE b

\* Faulty variant: the reduce keeps the accumulator on equal sums.
RECURSIVE reduceKeepFirst(_, _)
reduceKeepFirst(keys, sum) ==
    IF Len(keys) = 1 THEN keys[1]
    ELSE LET a == reduceKeepFirst(SubSeq(keys, 1, Len(keys) - 1), sum)
             b == keys[Len(keys)]
         IN  IF sum[a] >= sum[b] THEN a ELSE b

\* keys.reduce((a, b) => professionMap[a] > professionMap[b] ? a : b) on a
\* non-empty array: the accumulator starts as the first key.
RECURSIVE reduce(_, _)
reduce(keys, sum) ==
    IF Len(keys) = 1 THEN keys[1]
    ELSE LET a == reduce(SubSeq(keys, 1, Len(keys) - 1), sum)
             b == keys[Len(keys)]
         IN  IF sum[a] > sum[b] THEN a ELSE b

\* What the handler answers: reduce without an initial value throws a
\* TypeError on an empty array, which the error handler answers with 500.
bestProfession(start, end) ==
    LET error == validateDates(<<start, end>>) IN
    IF error # NoError THEN [statusCode |-> error.statusCode, body |-> error.message]
    ELSE LET m == professionMap(FindAll("contractor", "Contractor", start, end)) IN
         IF m.keys = << >>
         THEN [statusCode |-> 500, body |-> "Reduce of empty array with no initial value"]
         ELSE LET best == reduce(m.keys, m.sum) IN
              [statusCode |-> 200,
               body |-> IF m.sum[best] > 0 THEN best ELSE NoProfessionsPaid]

\* One request per table: the handler writes nothing, so a second request
\* is answered as the first.
BestProfession(start, end) ==
    /\ last.op = "none"
    /\ last' = [op |-> "best-profession", start |-> start, end |-> end, limit |-> << >>,
                statusCode |-> bestProfession(start, end).statusCode,
                body |-> bestProfession(start, end).body]
    /\ UNCHANGED <<profiles, contracts, jobs, reqs, now, ledger>>

NextBestProfession == \E start \in DateInputs, end \in DateInputs : BestProfession(start, end)

SpecBestProfession == InitBestProfession /\ [][NextBestProfession]_vars

\* --------------------------------------------- GET /admin/best-clients
\* Faulty variant: ascending order.
compareAscending(a, b) == IF a.paid < b.paid THEN 0 - 1 ELSE 1

\* (a, b) => a.paid > b.paid ? -1 : 1
compare(a, b) == IF a.paid > b.paid THEN 0 - 1 ELSE 1

\* Array.prototype.sort on a short array: each element is inserted into the
\* sorted prefix before the first element it compares below.
RECURSIVE sort(_)
sort(a) ==
    IF a = << >> THEN << >>
    ELSE LET sorted == sort(SubSeq(a, 1, Len(a) - 1))
             x == a[Len(a)]
             below == {i \in 1..Len(sorted) : compare(x, sorted[i]) < 0}
             at == IF below = {} THEN Len(sorted) + 1
                   ELSE CHOOSE i \in below : \A k \in below : i <= k
         IN  SubSeq(sorted, 1, at - 1) \o <<x>> \o SubSeq(sorted, at, Len(sorted))

\* a.slice(0, end): a negative end counts from the end of the array.
slice(a, end) ==
    LET to == IF end < 0 THEN (IF Len(a) + end < 0 THEN 0 ELSE Len(a) + end)
              ELSE IF end > Len(a) THEN Len(a) ELSE end
    IN  SubSeq(a, 1, to)

bestClients(start, end, limit) ==
    LET error == validateDates(<<start, end>>) IN
    IF error # NoError THEN [statusCode |-> error.statusCode, body |-> error.message]
    ELSE LET users == FindAll("client", "Client", start, end)
             rows == [i \in 1..Len(users) |->
                        [id |-> users[i].id,
                         fullName |-> users[i].firstName \o " " \o users[i].lastName,
                         paid |-> contractsSum(users[i].Contracts)]]
         IN  [statusCode |-> 200,
              body |-> slice(sort(rows), IF limit = << >> THEN 2 ELSE limit[1])]

BestClients(start, end, limit) ==
    /\ last.op = "none"
    /\ last' = [op |-> "best-clients", start |-> start, end |-> end, limit |-> limit,
                statusCode |-> bestClients(start, end, limit).statusCode,
                body |-> bestClients(start, end, limit).body]
    /\ UNCHANGED <<profiles, contracts, jobs, reqs, now, ledger>>

NextBestClients ==
    \E start \in DateInputs, end \in DateInputs, limit \in LimitInputs :
        BestClients(start, end, limit)

SpecBestClients == InitBestClients /\ [][NextBestClients]_vars

\* ------------------------------------------------- report properties
\* The request of the last answer had two valid dates.
ValidRange == last.start \in Dates /\ last.end \in Dates

\* The jobs that are paid with a paymentDate inside the last request's range.
JobsInRange ==
    {j \in DOMAIN jobs : /\ jobs[j].paid = "true"
                         /\ jobs[j].paymentDate # NullDate
                         /\ jobs[j].paymentDate[1] >= last.start
                         /\ jobs[j].paymentDate[1] <= last.end}

PriceOf == [j \in DOMAIN jobs |-> jobs[j].price]

ContractorIds == {p \in DOMAIN profiles : profiles[p].type = "contractor"}
ClientIds == {p \in DOMAIN profiles : profiles[p].type = "client"}
Professions == {profiles[p].profession : p \in ContractorIds}

\* The summed price of the in-range paid jobs of the contractors of profession q.
Earned(q) ==
    SumOver({j \in JobsInRange : /\ contracts[jobs[j].ContractId].ContractorId \in ContractorIds
                                 /\ profiles[contracts[jobs[j].ContractId].ContractorId].profession = q},
            PriceOf)

MaxEarned ==
    IF Professions = {} THEN 0
    ELSE LET q == CHOOSE x \in Professions : \A y \in Professions : Earned(x) >= Earned(y)
         IN  Earned(q)

\* The position of profession q in aggregation order: the least id of a
\* contractor that has it.
FirstSeen(q) ==
    CHOOSE p \in ContractorIds :
        /\ profiles[p].profession = q
        /\ \A o \in ContractorIds : profiles[o].profession = q => p <= o

Tied == {q \in Professions : Earned(q) = MaxEarned}

\* The summed price of the in-range paid jobs on the contracts of client p.
ClientPaid(p) ==
    SumOver({j \in JobsInRange : contracts[jobs[j].ContractId].ClientId = p}, PriceOf)

\* C13: when the maximum summed price is 0 (no contractor, or none with a
\* paid job in range) best-profession answers 200 with the fallback text.
C13_FallbackWhenNothingPaid ==
    last.op = "best-profession" /\ ValidRange /\ MaxEarned = 0 =>
        last.statusCode = 200 /\ last.body = NoProfessionsPaid

\* C14: when some profession has a positive summed price, best-profession
\* answers 200 with a profession whose summed price is the maximum.
C14_BestProfessionIsMaximal ==
    last.op = "best-profession" /\ ValidRange /\ MaxEarned > 0 =>
        /\ last.statusCode = 200
        /\ last.body \in Professions
        /\ Earned(last.body) = MaxEarned

\* Two Programmers whose sums add up beat a Fighter who earned less.
C14_Witness ==
    /\ last.op = "best-profession" /\ ValidRange /\ last.statusCode = 200
    /\ last.body = "Programmer"
    /\ {4, 5, 6} \subseteq DOMAIN profiles
    /\ profiles[5].profession = "Programmer"
    /\ Earned("Programmer") >= 3
    /\ Earned("Fighter") > 0

\* C15: for a limit >= 0 (2 when absent) best-clients answers
\* min(limit, number of clients) entries, each a distinct client with its
\* paid sum and full name, in non-increasing order of paid, no omitted client
\* having paid more than a returned one; clients with paid 0 are kept.
C15_BestClientsTopLimit ==
    last.op = "best-clients" /\ ValidRange /\ (last.limit = << >> \/ last.limit[1] >= 0) =>
        LET limit == IF last.limit = << >> THEN 2 ELSE last.limit[1]
            n == IF limit < Cardinality(ClientIds) THEN limit ELSE Cardinality(ClientIds)
            body == last.body
            returned == {body[i].id : i \in 1..Len(body)}
        IN  /\ last.statusCode = 200
            /\ Len(body) = n
            /\ Cardinality(returned) = n
            /\ \A i \in 1..Len(body) :
                 /\ body[i].id \in ClientIds
                 /\ body[i].paid = ClientPaid(body[i].id)
                 /\ body[i].fullName = FirstName(body[i].id) \o " " \o LastName(body[i].id)
            /\ \A i \in 1..Len(body), k \in 1..Len(body) : i < k => body[i].paid >= body[k].paid
            /\ \A o \in ClientIds \ returned, i \in 1..Len(body) : ClientPaid(o) <= body[i].paid

\* Three clients, no limit given: two entries, the second with paid 0.
C15_Witness ==
    /\ last.op = "best-clients" /\ ValidRange /\ last.limit = << >>
    /\ Cardinality(ClientIds) = 3
    /\ Len(last.body) = 2
    /\ last.body[1].paid > 0
    /\ last.body[2].paid = 0

\* C18 as stated: on a tie for the maximum positive sum best-profession
\* answers the tied profession that comes first in aggregation order.
C18_TieGoesToFirst ==
    last.op = "best-profession" /\ ValidRange /\ MaxEarned > 0 /\ Cardinality(Tied) >= 2 =>
        /\ last.body \in Tied
        /\ \A q \in Tied : FirstSeen(last.body) <= FirstSeen(q)

\* C18: on a tie for the maximum positive sum best-profession answers the
\* tied profession that comes last in aggregation order.
C18_TieGoesToLast ==
    last.op = "best-profession" /\ ValidRange /\ MaxEarned > 0 /\ Cardinality(Tied) >= 2 =>
        /\ last.body \in Tied
        /\ \A q \in Tied : FirstSeen(last.body) >= FirstSeen(q)

\* Programmer and Musician tie above Fighter: the answer is Musician.
C18_Witness ==
    /\ last.op = "best-profession" /\ ValidRange /\ MaxEarned > 0
    /\ Tied = {"Programmer", "Musician"}
    /\ "Fighter" \in Professions
    /\ last.body = "Musician"

====
